---------------------------- MODULE Spec2Model ----------------------------
(***************************************************************************)
(* Knowledge store of tinker: the importer (tools/import-knowledge.py)     *)
(* and the embedding backfill orchestrator (tools/embed-knowledge.py).     *)
(*                                                                         *)
(* Two programs work on one SQLite store.  SpecImport is the importer's    *)
(* state machine, SpecEmbed the orchestrator's with its worker process,    *)
(* SpecStore the two taking turns on the store, SpecDelete the store with  *)
(* documents deleted as well, and SpecChunk is chunk_text on its own.      *)
(* Texts are modelled by their structure: a text is a sequence of          *)
(* paragraphs (the pieces between blank lines, stripped), a paragraph is   *)
(* the sequence of the lengths of its sentence units (the pieces between   *)
(* ". " or a newline); a blank paragraph is the empty sequence.  A unit of  *)
(* n characters with visible text is written n, a unit of n white-space    *)
(* characters is written -n.                                               *)
(***************************************************************************)
EXTENDS Integers, Sequences, FiniteSets, TLC

VARIABLES
    db,          \* the committed (durable) store: documents, chunks, fts
    tx,          \* the importer connection's view: db plus its uncommitted rows
    ipc,         \* importer position
    run,         \* importer: kind of the current run and its sources
    queue,       \* importer: sources of the run still to process
    cur,         \* importer: the document being inserted
    imported,    \* importer: counter of import_claude_code / import_claude_ai
    skipped,     \* importer: counter of import_claude_code
    derived,     \* history: document id -> fragments chunk_text gave for it
    state,       \* orchestrator position / terminal state
    total,       \* orchestrator: unembedded count read at start
    done,        \* orchestrator: accumulated embedded count
    retries,     \* orchestrator: consecutive crash counter
    result,      \* what subprocess.run gave for the worker in flight
    summary,     \* TRUE once the final "Done! Embedded ..." line is printed
    dispatched,  \* history: number of workers spawned (saturates)
    onlyCrashes, \* history: every worker so far exited non-zero
    clean,       \* history: every worker so far ran its batch to the end
    bad,         \* chunk ids for which the embedding capability gives no vector
    workers,     \* history: worker processes alive
    streak,      \* history: non-zero worker exits in a row
    crashes,     \* history: non-zero worker exits of the run (saturates)
    input,       \* chunker: the text handed to chunk_text
    fragments,   \* chunker: what chunk_text returned
    chunked      \* chunker: TRUE once chunk_text has returned

vars == <<db, tx, ipc, run, queue, cur, imported, skipped, derived,
          state, total, done, retries, result, summary, dispatched,
          onlyCrashes, clean, bad, workers, streak, crashes,
          input, fragments, chunked>>

importVars == <<tx, ipc, run, queue, cur, imported, skipped, derived>>
importCtl == <<ipc, run, queue, cur, imported, skipped, derived>>
embedVars == <<state, total, done, retries, result, summary, dispatched,
               onlyCrashes, clean, bad, workers, streak, crashes>>
chunkVars == <<input, fragments, chunked>>

-----------------------------------------------------------------------------
(* Program constants *)

MIN_HUMAN_MESSAGES == 5
MAX_FILE_SIZE == 50000000
LONG_PARA == 800
SENT_CEILING == 600
SMALL_PARA == 100
\* BATCH_SIZE is 2000 in the source; scaled so that several batches happen
BATCH_SIZE == 2
RETRY_CEILING == 5
\* sentenceVectorDimension() of the embedding capability
DIM == 768

(* Bounds of the model *)

MaxChunks == 3
MaxDispatch == 8
MaxDocs == 3
MaxSources == 3
MaxConvs == 2
MaxUnits == 4

\* SQL NULL, of a text column and of the vector column
NULL == "NULL"
NO_VECTOR == <<>>
\* struct.pack(f"{dim}f", ...): a blob is modelled by its number of floats
Blob(dim) == <<dim>>

-----------------------------------------------------------------------------
(* chunk_text *)

RECURSIVE SumSeq(_)
SumSeq(s) == IF s = <<>> THEN 0 ELSE Head(s) + SumSeq(Tail(s))

\* len(unit)
UnitLen(u) == IF u < 0 THEN -u ELSE u

\* not unit.strip()
IsBlank(u) == u <= 0

\* len(para): the units and one separator character between two units
ParaLen(p) ==
    IF p = <<>> THEN 0
    ELSE SumSeq([i \in DOMAIN p |-> UnitLen(p[i])]) + Len(p) - 1

\* p.strip(): the white-space units at both ends are gone
RECURSIVE Strip(_)
Strip(p) ==
    IF p = <<>> THEN p
    ELSE IF IsBlank(Head(p)) THEN Strip(Tail(p))
    ELSE IF IsBlank(p[Len(p)]) THEN Strip(SubSeq(p, 1, Len(p) - 1))
    ELSE p

EmptyBuf == [len |-> 0, parts |-> <<>>]

\* paragraphs = [p.strip() for p in text.split("\n\n") if p.strip()]
Paragraphs(text) ==
    SelectSeq([i \in DOMAIN text |-> Strip(text[i])], LAMBDA p : p # <<>>)

IsLong(para) == ParaLen(para) > LONG_PARA

\* the sub-fragment emitted already when the sum reaches the ceiling
Overflows_ge(bufLen, sentLen) == bufLen + sentLen >= SENT_CEILING

Overflows(bufLen, sentLen) == bufLen + sentLen > SENT_CEILING

\* a paragraph merged also when the sum reaches the threshold
Merges_le(bufLen, paraLen) == bufLen + paraLen <= SMALL_PARA

Merges(bufLen, paraLen) == bufLen + paraLen < SMALL_PARA

Flush(chunks, buffer) ==
    IF buffer.len > 0 THEN Append(chunks, buffer) ELSE chunks

\* the emitted buffer kept in front of a long paragraph
ResetBuffer_keep(buffer) == buffer

\* buffer = "" once the buffer is emitted in front of a long paragraph
ResetBuffer(buffer) == EmptyBuf

\* the sentence loop of one long paragraph
RECURSIVE pack_sentences(_, _, _, _, _)
pack_sentences(pi, sentences, i, sent_buf, chunks) ==
    IF i > Len(sentences)
    THEN Flush(chunks, sent_buf)
    ELSE LET sent == [len |-> UnitLen(sentences[i]), parts |-> <<<<pi, i>>>>] IN
         IF Overflows(sent_buf.len, sent.len)
         THEN pack_sentences(pi, sentences, i + 1, sent, Flush(chunks, sent_buf))
         ELSE pack_sentences(pi, sentences, i + 1,
                  [len |-> sent_buf.len + (IF sent_buf.len > 0 THEN 1 ELSE 0) + sent.len,
                   parts |-> sent_buf.parts \o sent.parts],
                  chunks)

\* the paragraph loop; a part <<p, 0>> is paragraph p as a whole
RECURSIVE chunk_paragraphs(_, _, _, _)
chunk_paragraphs(paragraphs, i, buffer, chunks) ==
    IF i > Len(paragraphs)
    THEN Flush(chunks, buffer)
    ELSE LET para == paragraphs[i] IN
         IF IsLong(para)
         THEN chunk_paragraphs(paragraphs, i + 1, ResetBuffer(buffer),
                  pack_sentences(i, para, 1, EmptyBuf, Flush(chunks, buffer)))
         ELSE IF Merges(buffer.len, ParaLen(para))
         THEN chunk_paragraphs(paragraphs, i + 1,
                  [len |-> buffer.len + (IF buffer.len > 0 THEN 2 ELSE 0) + ParaLen(para),
                   parts |-> Append(buffer.parts, <<i, 0>>)],
                  chunks)
         ELSE chunk_paragraphs(paragraphs, i + 1,
                  [len |-> ParaLen(para), parts |-> <<<<i, 0>>>>],
                  Flush(chunks, buffer))

chunk_text(text) == chunk_paragraphs(Paragraphs(text), 1, EmptyBuf, <<>>)

-----------------------------------------------------------------------------
(* The store *)

EmptyDb == [documents |-> <<>>, chunks |-> <<>>, fts |-> {}]

Range(s) == {s[i] : i \in 1..Len(s)}

RECURSIVE SetMax(_)
SetMax(S) == IF S = {} THEN 0
             ELSE LET x == CHOOSE y \in S : TRUE IN
                  LET m == SetMax(S \ {x}) IN IF x > m THEN x ELSE m

\* uuid.uuid4(): an identifier no row of the connection's view carries
NewId(rows) == SetMax({r.id : r \in Range(rows)}) + 1

\* SELECT source_path FROM documents WHERE source_path IS NOT NULL
existing_source_paths(conn) ==
    {d.source_path : d \in {e \in Range(conn.documents) : e.source_path # NULL}}

\* every statement committed on its own
DurableAfterExecute_autocommit(durable, view) == view

\* what is durable after an INSERT that is not followed by a commit
DurableAfterExecute(durable, view) == durable

insert_document(conn, doc_id, filename, source_type, source_path) ==
    [conn EXCEPT !.documents =
        Append(@, [id |-> doc_id, filename |-> filename, source_type |-> source_type,
                   source_path |-> source_path])]

\* executemany of the INSERT; trigger chunks_ai adds each row to chunks_fts
RECURSIVE insert_chunks(_, _, _)
insert_chunks(conn, chunks, document_id) ==
    IF chunks = <<>> THEN conn
    ELSE LET id == NewId(conn.chunks)
             row == [id |-> id, document_id |-> document_id,
                     text |-> Head(chunks), vector |-> NO_VECTOR]
         IN insert_chunks([conn EXCEPT !.chunks = Append(@, row),
                                       !.fts = @ \cup {<<id, Head(chunks)>>}],
                          Tail(chunks), document_id)

\* the selection without its WHERE clause
Unembedded_all(d) == d.chunks

\* SELECT id, text FROM chunks WHERE vector IS NULL
Unembedded(d) == SelectSeq(d.chunks, LAMBDA c : c.vector = NO_VECTOR)

\* SELECT count(*) FROM chunks WHERE vector IS NULL
countUnembedded(d) == Len(Unembedded(d))

-----------------------------------------------------------------------------
(* The sources the importer reads *)

Msg(role, text) == [role |-> role, text |-> text]

\* len("[Human]"), len("[Assistant]")
RoleTag(role) == IF role = "Human" THEN 7 ELSE 11

\* f"[{role}]\n{text}": the tag is one more unit of the text's first paragraph
Block(m) ==
    IF m.text = <<>> THEN <<<<RoleTag(m.role)>>>>
    ELSE <<<<RoleTag(m.role)>> \o Head(m.text)>> \o Tail(m.text)

\* "\n\n".join(f"[{role}]\n{text}" for role, text in messages)
RECURSIVE Transcript(_)
Transcript(messages) ==
    IF messages = <<>> THEN <<>>
    ELSE Block(Head(messages)) \o Transcript(Tail(messages))

\* sum(1 for r, _ in messages if r == "Human")
human_count(messages) == Len(SelectSeq(messages, LAMBDA m : m.role = "Human"))

HumanMsgs(n) == [i \in 1..n |-> Msg("Human", <<<<20>>>>)]

\* The files of the file system: what stat, parse_cc_jsonl and read_text give
JsonlFiles == <<"a.jsonl", "b.jsonl", "c.jsonl", "d.jsonl", "e.jsonl", "f.jsonl">>

File(path) ==
    CASE path = "a.jsonl" ->
            [stat_ok |-> TRUE, size |-> 4000, parse_ok |-> TRUE,
             messages |-> HumanMsgs(5), raw |-> <<<<60, 60, 60, 60, 60>>>>]
      [] path = "b.jsonl" ->   \* stat and open raise OSError
            [stat_ok |-> FALSE, size |-> 4000, parse_ok |-> FALSE,
             messages |-> <<>>, raw |-> <<>>]
      [] path = "c.jsonl" ->   \* larger than MAX_FILE_SIZE
            [stat_ok |-> TRUE, size |-> 50000001, parse_ok |-> TRUE,
             messages |-> HumanMsgs(6), raw |-> <<<<60>>>>]
      [] path = "d.jsonl" ->   \* parse_cc_jsonl raises
            [stat_ok |-> TRUE, size |-> 4000, parse_ok |-> FALSE,
             messages |-> <<>>, raw |-> <<<<60>>>>]
      [] path = "e.jsonl" ->   \* one human message short
            [stat_ok |-> TRUE, size |-> 4000, parse_ok |-> TRUE,
             messages |-> HumanMsgs(4) \o <<Msg("Assistant", <<<<30>>>>)>>,
             raw |-> <<<<60, 60, 60, 60, 60>>>>]
      [] path = "f.jsonl" ->   \* with one long paragraph of three sentences
            [stat_ok |-> TRUE, size |-> 50000000, parse_ok |-> TRUE,
             messages |-> HumanMsgs(5) \o <<Msg("Assistant", <<<<400, 300, 200>>>>)>>,
             raw |-> <<<<60, 60, 60, 60, 60, 900>>>>]
      [] path = "doc.md" ->
            [stat_ok |-> TRUE, size |-> 4000, parse_ok |-> FALSE,
             messages |-> <<>>, raw |-> <<<<40>>, <<>>, <<60, 25>>>>]
      [] path = "empty.md" ->
            [stat_ok |-> TRUE, size |-> 0, parse_ok |-> FALSE,
             messages |-> <<>>, raw |-> <<<<>>, <<>>>>]

FileArgs == {"doc.md", "empty.md", "a.jsonl", "b.jsonl"}

\* sorted(directory.rglob("*.jsonl")) for a directory holding the files of S
SortedFiles(S) == SelectSeq(JsonlFiles, LAMBDA f : f \in S)

Directories == {S \in SUBSET Range(JsonlFiles) : Cardinality(S) <= MaxSources}

\* The conversations of an export of Claude.ai
ChatMsg(sender, has_text) == [sender |-> sender, has_text |-> has_text, text |-> <<<<20>>>>]

ConvValid == [name |-> "valid", chat_messages |-> [i \in 1..5 |-> ChatMsg("human", TRUE)]]
ConvBelow == [name |-> "below", chat_messages |-> [i \in 1..4 |-> ChatMsg("human", TRUE)]]
\* enough human messages, one message without the key 'text'
ConvMalformed ==
    [name |-> "malformed",
     chat_messages |-> [i \in 1..5 |-> ChatMsg("human", i # 3)]]

Conversations == {ConvValid, ConvBelow, ConvMalformed}

Exports ==
    {[json_ok |-> FALSE, conversations |-> <<>>]} \cup
    {[json_ok |-> TRUE, conversations |-> c] :
        c \in UNION {[1..n -> Conversations] : n \in 0..MaxConvs}}

\* sum(1 for m in c.get("chat_messages", []) if m.get("sender") == "human") >= 5
Eligible(conv) ==
    Len(SelectSeq(conv.chat_messages, LAMBDA m : m.sender = "human")) >= MIN_HUMAN_MESSAGES

\* m['text'] of some message raises KeyError
TextMissing(conv) == \E i \in DOMAIN conv.chat_messages : ~conv.chat_messages[i].has_text

ConvMessages(conv) ==
    [i \in DOMAIN conv.chat_messages |->
        Msg(IF conv.chat_messages[i].sender = "human" THEN "Human" ELSE "Assistant",
            conv.chat_messages[i].text)]

-----------------------------------------------------------------------------
(* The importer: import-knowledge.py *)

NoRun == [kind |-> "none", sources |-> <<>>, docsBefore |-> 0, crashedAt |-> ""]
NoDoc == [id |-> 0, filename |-> "", source_type |-> "none", source_path |-> NULL,
          chunks |-> <<>>]

\* uuid.uuid4() for a document: an identifier that no document carries and
\* that no chunk refers to
NewDocId(conn) ==
    SetMax({doc.id : doc \in Range(conn.documents)}
           \cup {c.document_id : c \in Range(conn.chunks)}) + 1

NewDoc(conn, filename, source_type, source_path, chunks) ==
    [id |-> NewDocId(conn), filename |-> filename, source_type |-> source_type,
     source_path |-> source_path, chunks |-> chunks]

\* a transcript with exactly the minimum taken for too short as well
BelowSignal_le(n) == n <= MIN_HUMAN_MESSAGES

\* line 190: human_count < MIN_HUMAN_MESSAGES
BelowSignal(n) == n < MIN_HUMAN_MESSAGES

\* the reason import_claude_code skips a file, "" when it imports it
SkipReason(path) ==
    LET f == File(path) IN
    IF ~f.stat_ok THEN "stat"                                         \* 172-176
    ELSE IF f.size > MAX_FILE_SIZE THEN "size"                         \* 177-181
    ELSE IF ~f.parse_ok THEN "parse"                                   \* 183-187
    ELSE IF BelowSignal(human_count(f.messages)) THEN "signal"        \* 189-194
    ELSE IF chunk_text(Transcript(f.messages)) = <<>> THEN "empty"     \* 196-200
    ELSE ""

\* to_process = [f for f in jsonl_files if str(f) not in existing]
ToProcess(jsonl_files, existing) == SelectSeq(jsonl_files, LAMBDA f : f \notin existing)

\* import_claude_code, lines 153-168
StartDir ==
    /\ ipc = "idle"
    /\ \E S \in Directories :
          LET jsonl_files == SortedFiles(S)
              to_process == ToProcess(jsonl_files, existing_source_paths(tx))
          IN /\ Len(db.documents) + Len(to_process) <= MaxDocs
             /\ run' = [kind |-> "dir", sources |-> jsonl_files,
                        docsBefore |-> Len(db.documents), crashedAt |-> ""]
             /\ queue' = to_process
             /\ ipc' = IF to_process = <<>> THEN "finished" ELSE "cc_loop"
    /\ imported' = 0
    /\ skipped' = 0
    /\ UNCHANGED <<db, tx, cur, derived, embedVars, chunkVars>>

\* lines 170-200: one file of the run that is skipped
CcSkip ==
    /\ ipc = "cc_loop"
    /\ queue # <<>>
    /\ SkipReason(Head(queue)) # ""
    /\ skipped' = skipped + 1
    /\ queue' = Tail(queue)
    /\ UNCHANGED <<db, tx, ipc, run, cur, imported, derived, embedVars, chunkVars>>

\* lines 170-206: one file of the run that is about to be inserted
CcAccept ==
    /\ ipc = "cc_loop"
    /\ queue # <<>>
    /\ SkipReason(Head(queue)) = ""
    /\ cur' = NewDoc(tx, Head(queue), "claude_code", Head(queue),
                     chunk_text(Transcript(File(Head(queue)).messages)))
    /\ ipc' = "insert_document"
    /\ UNCHANGED <<db, tx, run, queue, imported, skipped, derived, embedVars, chunkVars>>

\* lines 218-220, and main's report
CcFinish ==
    /\ ipc = "cc_loop"
    /\ queue = <<>>
    /\ db' = tx
    /\ ipc' = "finished"
    /\ UNCHANGED <<tx, run, queue, cur, imported, skipped, derived, embedVars, chunkVars>>

\* import_claude_ai, lines 224-232
StartAi ==
    /\ ipc = "idle"
    /\ \E export \in Exports :
          /\ Len(db.documents) + Len(export.conversations) <= MaxDocs
          /\ run' = [kind |-> "ai", sources |-> export.conversations,
                     docsBefore |-> Len(db.documents), crashedAt |-> ""]
          /\ IF export.json_ok
             THEN /\ queue' = SelectSeq(export.conversations, Eligible)
                  /\ ipc' = "ai_loop"
             ELSE /\ queue' = <<>>       \* json.load raises
                  /\ ipc' = "raised"
    /\ imported' = 0
    /\ skipped' = 0
    /\ UNCHANGED <<db, tx, cur, derived, embedVars, chunkVars>>

\* lines 233-243: the transcript of one conversation; a KeyError ends the run
AiStep ==
    /\ ipc = "ai_loop"
    /\ queue # <<>>
    /\ LET conv == Head(queue) IN
       IF TextMissing(conv)
       THEN /\ ipc' = "raised"
            /\ UNCHANGED <<queue, cur>>
       ELSE LET chunks == chunk_text(Transcript(ConvMessages(conv))) IN
            IF chunks = <<>>
            THEN /\ queue' = Tail(queue)
                 /\ UNCHANGED <<ipc, cur>>
            ELSE /\ cur' = NewDoc(tx, conv.name, "claude_ai", NULL, chunks)
                 /\ ipc' = "insert_document"
                 /\ UNCHANGED queue
    /\ UNCHANGED <<db, tx, run, imported, skipped, derived, embedVars, chunkVars>>

\* lines 251-252, and main's report
AiFinish ==
    /\ ipc = "ai_loop"
    /\ queue = <<>>
    /\ db' = tx
    /\ ipc' = "finished"
    /\ UNCHANGED <<tx, run, queue, cur, imported, skipped, derived, embedVars, chunkVars>>

\* import_file, lines 255-263
StartFile ==
    /\ ipc = "idle"
    /\ Len(db.documents) + 1 <= MaxDocs
    /\ \E path \in FileArgs :
          LET f == File(path)
              chunks == chunk_text(f.raw)
          IN /\ run' = [kind |-> "file", sources |-> <<path>>,
                        docsBefore |-> Len(db.documents), crashedAt |-> ""]
             /\ IF ~f.stat_ok
                THEN ipc' = "raised" /\ cur' = cur       \* read_text raises
                ELSE IF chunks = <<>>
                THEN ipc' = "finished" /\ cur' = cur     \* "File is empty ..."
                ELSE /\ cur' = NewDoc(tx, path, "file", path, chunks)
                     /\ ipc' = "insert_document"
    /\ queue' = <<>>
    /\ imported' = 0
    /\ skipped' = 0
    /\ UNCHANGED <<db, tx, derived, embedVars, chunkVars>>

\* insert_document (lines 137-142), called at lines 208, 244 and 264
InsertDocument ==
    /\ ipc = "insert_document"
    /\ tx' = insert_document(tx, cur.id, cur.filename, cur.source_type, cur.source_path)
    /\ db' = DurableAfterExecute(db, tx')
    /\ derived' = [i \in DOMAIN derived \cup {cur.id} |->
                      IF i = cur.id THEN cur.chunks ELSE derived[i]]
    /\ ipc' = "insert_chunks"
    /\ UNCHANGED <<run, queue, cur, imported, skipped, embedVars, chunkVars>>

\* insert_chunks (lines 145-149), called at lines 209, 245 and 265; the
\* exported-conversation run goes on without a commit (lines 246-249)
InsertChunks ==
    /\ ipc = "insert_chunks"
    /\ tx' = insert_chunks(tx, cur.chunks, cur.id)
    /\ db' = DurableAfterExecute(db, tx')
    /\ IF run.kind = "ai"
       THEN /\ imported' = imported + 1
            /\ queue' = Tail(queue)
            /\ ipc' = "ai_loop"
       ELSE /\ ipc' = "commit"
            /\ UNCHANGED <<imported, queue>>
    /\ UNCHANGED <<run, cur, skipped, derived, embedVars, chunkVars>>

\* conn.commit() at lines 210 and 266
Commit ==
    /\ ipc = "commit"
    /\ db' = tx
    /\ IF run.kind = "dir"
       THEN /\ imported' = imported + 1
            /\ queue' = Tail(queue)
            /\ ipc' = "cc_loop"
       ELSE /\ ipc' = "finished"
            /\ UNCHANGED <<imported, queue>>
    /\ UNCHANGED <<tx, run, cur, skipped, derived, embedVars, chunkVars>>

\* the importer process is killed; SQLite rolls the open transaction back
Crash ==
    /\ ipc \in {"cc_loop", "ai_loop", "insert_document", "insert_chunks", "commit"}
    /\ tx' = db
    /\ ipc' = "crashed"
    /\ run' = [run EXCEPT !.crashedAt = ipc]
    /\ UNCHANGED <<db, queue, cur, imported, skipped, derived, embedVars, chunkVars>>

\* the process is gone (main returned, or an exception or a crash ended it):
\* what was not committed is lost with the connection
Exit ==
    /\ ipc \in {"finished", "raised", "crashed"}
    /\ tx' = db
    /\ ipc' = "idle"
    /\ run' = NoRun
    /\ queue' = <<>>
    /\ cur' = NoDoc
    /\ imported' = 0
    /\ skipped' = 0
    /\ UNCHANGED <<db, derived, embedVars, chunkVars>>

OrchestratorIdle ==
    /\ state = "Idle"
    /\ total = 0
    /\ done = 0
    /\ retries = 0
    /\ result = [kind |-> "none", returncode |-> 0,
                 stdout |-> [json |-> "garbage", keys |-> {}, embedded |-> 0,
                             processed |-> 0]]
    /\ summary = FALSE
    /\ dispatched = 0
    /\ onlyCrashes = TRUE
    /\ clean = TRUE
    /\ bad = {}
    /\ workers = 0
    /\ streak = 0
    /\ crashes = 0

\* chunk_text is not being applied
ChunkerIdle ==
    /\ input = <<>>
    /\ fragments = <<>>
    /\ chunked = FALSE

\* init_db() on a new store
InitImport ==
    /\ db = EmptyDb
    /\ tx = db
    /\ ipc = "idle"
    /\ run = NoRun
    /\ queue = <<>>
    /\ cur = NoDoc
    /\ imported = 0
    /\ skipped = 0
    /\ derived = <<>>
    /\ OrchestratorIdle
    /\ ChunkerIdle

NextImport ==
    \/ StartDir
    \/ CcSkip
    \/ CcAccept
    \/ CcFinish
    \/ StartAi
    \/ AiStep
    \/ AiFinish
    \/ StartFile
    \/ InsertDocument
    \/ InsertChunks
    \/ Commit
    \/ Crash
    \/ Exit

SpecImport == InitImport /\ [][NextImport]_vars

-----------------------------------------------------------------------------
(* The worker process (WORKER_SCRIPT) *)

Min(a, b) == IF a < b THEN a ELSE b

\* ... LIMIT ?
SelectBatch(rows, limit) == SubSeq(rows, 1, Min(limit, Len(rows)))

\* "if vec and len(vec) == dim": the chunks of the batch that get a vector
Embeddable(rows, unusable) == {r.id : r \in {q \in Range(rows) : q.id \notin unusable}}

\* UPDATE chunks SET vector = ? WHERE id = ?, for every id of ids
WriteVectors(d, ids) ==
    [d EXCEPT !.chunks = [i \in DOMAIN @ |->
        IF @[i].id \in ids THEN [@[i] EXCEPT !.vector = Blob(DIM)] ELSE @[i]]]

BatchRows(d) == SelectBatch(Unembedded(d), BATCH_SIZE)

\* the store after the worker's db.commit()
BatchCommitted(d, unusable) == WriteVectors(d, Embeddable(BatchRows(d), unusable))

(* What the worker prints: the text of stdout, by its JSON shape *)
SuccessObj(e, p) == [json |-> "object", keys |-> {"embedded", "processed"},
                     embedded |-> e, processed |-> p]
ErrorObj == [json |-> "object", keys |-> {"error"}, embedded |-> 0, processed |-> 0]
Garbage == [json |-> "garbage", keys |-> {}, embedded |-> 0, processed |-> 0]
NonObject == [json |-> "nonobject", keys |-> {}, embedded |-> 0, processed |-> 0]
PartialObj(ks, e, p) == [json |-> "object", keys |-> ks, embedded |-> e, processed |-> p]

\* outputs of a worker that exits 0 and are not the success object
OtherOutputs ==
    {Garbage, NonObject, ErrorObj, PartialObj({}, 0, 0),
     PartialObj({"embedded"}, 1, 0), PartialObj({"processed"}, 0, 0),
     PartialObj({"processed"}, 0, 1)}

IsSuccessObj(out) == out.json = "object" /\ out.keys = {"embedded", "processed"}
IsErrorObj(out) == out.json = "object" /\ "error" \in out.keys

NoResult == [kind |-> "none", returncode |-> 0, stdout |-> Garbage]

\* the child is left running when its result is taken
Reaped_detached(w) == w

\* subprocess.run returns, or raises TimeoutExpired, only once the child has
\* been waited for (on timeout it is killed first)
Reaped(w) == w - 1

\* a worker process ends with an exit status
WorkerExit(returncode) ==
    /\ workers' = Reaped(workers)
    /\ streak' = IF returncode = 0 THEN 0 ELSE Min(streak + 1, MaxDispatch)
    /\ crashes' = IF returncode = 0 THEN crashes ELSE Min(crashes + 1, MaxDispatch)

\* lines 22-26: the capability fails to load
WorkerLoadFails ==
    /\ state = "AwaitingWorker"
    /\ result' = [kind |-> "exit", returncode |-> 1, stdout |-> ErrorObj]
    /\ state' = "WorkerExited"
    /\ clean' = FALSE
    /\ WorkerExit(1)
    /\ UNCHANGED <<db, importVars, chunkVars, total, done, retries, summary, dispatched,
                   onlyCrashes, bad>>

\* lines 28-41: the batch is embedded, committed and reported
WorkerCompletes ==
    /\ state = "AwaitingWorker"
    /\ LET rows == BatchRows(db) IN
       /\ db' = BatchCommitted(db, bad)
       /\ result' = [kind |-> "exit", returncode |-> 0,
                     stdout |-> SuccessObj(Cardinality(Embeddable(rows, bad)), Len(rows))]
    /\ state' = "WorkerExited"
    /\ onlyCrashes' = FALSE
    /\ WorkerExit(0)
    /\ tx' = db'
    /\ UNCHANGED <<importCtl, chunkVars, total, done, retries, summary, dispatched, clean, bad>>

\* the process dies, before db.commit() (nothing written) or after it
WorkerCrashes ==
    /\ state = "AwaitingWorker"
    /\ \E committed \in BOOLEAN :
          db' = IF committed THEN BatchCommitted(db, bad) ELSE db
    /\ result' = [kind |-> "exit", returncode |-> 1, stdout |-> Garbage]
    /\ state' = "WorkerExited"
    /\ clean' = FALSE
    /\ WorkerExit(1)
    /\ tx' = db'
    /\ UNCHANGED <<importCtl, chunkVars, total, done, retries, summary, dispatched,
                   onlyCrashes, bad>>

\* the worker is still running after 600 s and is killed
WorkerTimesOut ==
    /\ state = "AwaitingWorker"
    /\ \E committed \in BOOLEAN :
          db' = IF committed THEN BatchCommitted(db, bad) ELSE db
    /\ result' = [kind |-> "timeout", returncode |-> 1, stdout |-> Garbage]
    /\ state' = "WorkerExited"
    /\ clean' = FALSE
    /\ onlyCrashes' = FALSE
    /\ workers' = Reaped(workers)
    /\ UNCHANGED <<streak, crashes>>
    /\ tx' = db'
    /\ UNCHANGED <<importCtl, chunkVars, total, done, retries, summary, dispatched, bad>>

\* exit status 0 with an output that is not the success object
WorkerOtherOutput ==
    /\ state = "AwaitingWorker"
    /\ \E out \in OtherOutputs, committed \in BOOLEAN :
          /\ db' = IF committed THEN BatchCommitted(db, bad) ELSE db
          /\ result' = [kind |-> "exit", returncode |-> 0, stdout |-> out]
    /\ state' = "WorkerExited"
    /\ clean' = FALSE
    /\ onlyCrashes' = FALSE
    /\ WorkerExit(0)
    /\ tx' = db'
    /\ UNCHANGED <<importCtl, chunkVars, total, done, retries, summary, dispatched, bad>>

-----------------------------------------------------------------------------
(* The orchestrator: main() of embed-knowledge.py *)

\* the loop entered once more when done has reached total
LoopCond_le(d, t) == d <= t

\* the counter left as it is after a worker that exited with status zero
ResetRetries_keep(r) == r

\* line 75: retries = 0
ResetRetries(r) == 0

\* while done < total
LoopCond(d, t) == d < t

\* the ceiling tested with >= instead of >
RetryExceeded_ge(r) == r >= RETRY_CEILING

\* if retries > 5
RetryExceeded(r) == r > RETRY_CEILING

\* lines 46-57
CountUnembedded ==
    /\ state = "Idle"
    /\ total' = countUnembedded(db)
    /\ IF total' = 0
       THEN state' = "Stopped"         \* "Nothing to do!", return
       ELSE state' = "Dispatching"
    /\ done' = 0
    /\ retries' = 0
    /\ UNCHANGED <<db, importVars, chunkVars, workers, streak, crashes,
                   result, summary, dispatched, onlyCrashes, clean, bad>>

\* lines 59-63: the loop is entered and one worker is spawned
Dispatch ==
    /\ state = "Dispatching"
    /\ LoopCond(done, total)
    /\ state' = "AwaitingWorker"
    /\ dispatched' = Min(dispatched + 1, MaxDispatch)
    /\ result' = NoResult
    /\ workers' = workers + 1
    /\ UNCHANGED <<db, importVars, chunkVars, streak, crashes,
                   total, done, retries, summary, onlyCrashes, clean, bad>>

\* lines 59, 95-96: the loop condition fails
LoopExit ==
    /\ state = "Dispatching"
    /\ ~LoopCond(done, total)
    /\ state' = "Stopped"
    /\ summary' = TRUE
    /\ UNCHANGED <<db, importVars, chunkVars, workers, streak, crashes,
                   total, done, retries, result, dispatched,
                   onlyCrashes, clean, bad>>

\* lines 60-63: subprocess.run raises TimeoutExpired, which nothing catches
TimeoutExpired ==
    /\ state = "WorkerExited"
    /\ result.kind = "timeout"
    /\ state' = "Raised"
    /\ UNCHANGED <<db, importVars, chunkVars, workers, streak, crashes,
                   total, done, retries, result, summary, dispatched,
                   onlyCrashes, clean, bad>>

\* lines 65-73 (and 95-96 after the break)
WorkerCrashed ==
    /\ state = "WorkerExited"
    /\ result.kind = "exit"
    /\ result.returncode # 0
    /\ retries' = retries + 1
    /\ IF RetryExceeded(retries')
       THEN state' = "Aborted" /\ summary' = TRUE
       ELSE state' = "Dispatching" /\ summary' = summary
    /\ UNCHANGED <<db, importVars, chunkVars, workers, streak, crashes,
                   total, done, result, dispatched,
                   onlyCrashes, clean, bad>>

\* lines 75-80: json.loads raises
BadOutput ==
    /\ state = "WorkerExited"
    /\ result.kind = "exit"
    /\ result.returncode = 0
    /\ result.stdout.json = "garbage"
    /\ retries' = ResetRetries(retries)
    /\ state' = "Aborted"
    /\ summary' = TRUE
    /\ UNCHANGED <<db, importVars, chunkVars, workers, streak, crashes,
                   total, done, result, dispatched,
                   onlyCrashes, clean, bad>>

\* the evaluations of lines 82-89 that raise: "error" in info or info[...] on
\* a value that is not an object, info["processed"] or info["embedded"] absent
Raises(info) ==
    \/ info.json = "nonobject"
    \/ /\ info.json = "object"
       /\ "error" \notin info.keys
       /\ \/ "processed" \notin info.keys
          \/ info.processed # 0 /\ "embedded" \notin info.keys

\* lines 75-89: an exception nothing catches
Unhandled ==
    /\ state = "WorkerExited"
    /\ result.kind = "exit"
    /\ result.returncode = 0
    /\ Raises(result.stdout)
    /\ retries' = ResetRetries(retries)
    /\ state' = "Raised"
    /\ UNCHANGED <<db, importVars, chunkVars, workers, streak, crashes,
                   total, done, result, summary, dispatched,
                   onlyCrashes, clean, bad>>

\* lines 82-84
WorkerError ==
    /\ state = "WorkerExited"
    /\ result.kind = "exit"
    /\ result.returncode = 0
    /\ IsErrorObj(result.stdout)
    /\ retries' = ResetRetries(retries)
    /\ state' = "Aborted"
    /\ summary' = TRUE
    /\ UNCHANGED <<db, importVars, chunkVars, workers, streak, crashes,
                   total, done, result, dispatched,
                   onlyCrashes, clean, bad>>

\* lines 86-87
ProcessedZero ==
    /\ state = "WorkerExited"
    /\ result.kind = "exit"
    /\ result.returncode = 0
    /\ result.stdout.json = "object"
    /\ "error" \notin result.stdout.keys
    /\ "processed" \in result.stdout.keys
    /\ result.stdout.processed = 0
    /\ retries' = ResetRetries(retries)
    /\ state' = "Stopped"
    /\ summary' = TRUE
    /\ UNCHANGED <<db, importVars, chunkVars, workers, streak, crashes,
                   total, done, result, dispatched,
                   onlyCrashes, clean, bad>>

\* lines 89-93
Progress ==
    /\ state = "WorkerExited"
    /\ result.kind = "exit"
    /\ result.returncode = 0
    /\ result.stdout.json = "object"
    /\ "error" \notin result.stdout.keys
    /\ {"processed", "embedded"} \subseteq result.stdout.keys
    /\ result.stdout.processed # 0
    /\ retries' = ResetRetries(retries)
    /\ done' = done + result.stdout.embedded
    /\ state' = "Dispatching"
    /\ UNCHANGED <<db, importVars, chunkVars, workers, streak, crashes,
                   total, result, summary, dispatched,
                   onlyCrashes, clean, bad>>

Terminal == {"Stopped", "Aborted", "Raised"}

\* a fragment as chunk_text returns it, for the chunks already in the store
SampleText == <<<<12, 9>>>>

ImporterIdle ==
    /\ ipc = "idle"
    /\ run = NoRun
    /\ queue = <<>>
    /\ cur = NoDoc
    /\ imported = 0
    /\ skipped = 0

\* a store with n chunks of one document, some of them embedded already
StoreWith(vectors) ==
    LET frag == chunk_text(SampleText)[1]
        n == Len(vectors)
    IN [documents |-> IF n = 0 THEN <<>>
                      ELSE <<[id |-> 1, filename |-> "doc.md", source_type |-> "file",
                             source_path |-> "doc.md"]>>,
        chunks |-> [i \in 1..n |-> [id |-> i, document_id |-> 1, text |-> frag,
                                    vector |-> vectors[i]]],
        fts |-> {<<i, frag>> : i \in 1..n}]

\* what sentenceVectorDimension() returned when the vectors already in the
\* store were written: the present capability's dimension or another one
StoredDims == {DIM, DIM \div 2}

InitEmbed ==
    /\ ImporterIdle
    /\ ChunkerIdle
    /\ \E n \in 0..MaxChunks, stored \in StoredDims :
       \E vectors \in [1..n -> {NO_VECTOR, Blob(stored)}] :
          /\ db = StoreWith(vectors)
          /\ derived = IF n = 0 THEN <<>>
                       ELSE <<[i \in 1..n |-> chunk_text(SampleText)[1]]>>
          /\ bad \in SUBSET {i \in 1..n : vectors[i] = NO_VECTOR}
    /\ tx = db
    /\ state = "Idle"
    /\ total = 0
    /\ done = 0
    /\ retries = 0
    /\ result = NoResult
    /\ summary = FALSE
    /\ dispatched = 0
    /\ onlyCrashes = TRUE
    /\ clean = TRUE
    /\ workers = 0
    /\ streak = 0
    /\ crashes = 0

NextEmbed ==
    \/ CountUnembedded
    \/ Dispatch
    \/ LoopExit
    \/ WorkerLoadFails
    \/ WorkerCompletes
    \/ WorkerCrashes
    \/ WorkerTimesOut
    \/ WorkerOtherOutput
    \/ TimeoutExpired
    \/ WorkerCrashed
    \/ BadOutput
    \/ Unhandled
    \/ WorkerError
    \/ ProcessedZero
    \/ Progress

SpecEmbed == InitEmbed /\ [][NextEmbed]_vars

\* the orchestrator and the worker keep taking their next step
FairSpecEmbed == SpecEmbed /\ WF_vars(NextEmbed)

-----------------------------------------------------------------------------
(* Claims about the orchestrator *)

Ceil(n, b) == (n + b - 1) \div b

AllRemainingUnembeddable == \A c \in Range(Unembedded(db)) : c.id \in bad

\* C1 (as claimed): when every dispatched worker exits with a non-zero status,
\* the orchestrator is Aborted after exactly RETRY_CEILING crashes: the number
\* of workers dispatched before it gives up equals the ceiling.
C1_AbortsAtCeiling ==
    (state = "Aborted" /\ onlyCrashes) => dispatched = RETRY_CEILING

\* C1 (amended): when every dispatched worker exits with a non-zero status, the
\* retry counter equals the number of crashes handled, the orchestrator is
\* Aborted exactly when the counter exceeds the ceiling, and the number of
\* workers dispatched before it gives up is RETRY_CEILING + 1, never fewer and
\* never more.
C1_AbortsAfterCeilingPlusOne ==
    (onlyCrashes /\ dispatched > 0) =>
        /\ dispatched <= RETRY_CEILING + 1
        /\ state \in {"Dispatching", "Aborted"} => retries = dispatched
        /\ state \in {"AwaitingWorker", "WorkerExited"} => retries = dispatched - 1
        /\ state = "Aborted" <=> retries = RETRY_CEILING + 1
        /\ state \notin {"Stopped", "Raised"}

C1_Witness ==
    state = "Aborted" /\ onlyCrashes /\ dispatched = RETRY_CEILING + 1 /\ summary

\* C2: from N unembedded chunks, with every worker running its batch to the
\* end and the capability giving a vector for every chunk, the orchestrator
\* ends, it ends Stopped, it has dispatched at most ceil(N / BATCH_SIZE)
\* workers, and no chunk is left without a vector.
C2_Terminates ==
    /\ [](clean /\ bad = {} =>
            /\ dispatched <= Ceil(total, BATCH_SIZE)
            /\ state \in Terminal => state = "Stopped" /\ countUnembedded(db) = 0)
    /\ <>(state = "Stopped" \/ ~clean \/ bad # {})

C2_Witness ==
    /\ state = "Stopped" /\ clean /\ bad = {}
    /\ total > BATCH_SIZE
    /\ dispatched = Ceil(total, BATCH_SIZE)
    /\ countUnembedded(db) = 0

\* C3: a worker that reports the error payload {error: message} moves the
\* orchestrator to Aborted at once: no retry, no further worker.
C3_ErrorPayloadAborts ==
    [][(state = "WorkerExited" /\ result.kind = "exit" /\ IsErrorObj(result.stdout))
          => state' = "Aborted"]_vars

\* C4: a worker that exceeds the timeout is handled like a crash: the retry
\* counter is incremented and the orchestrator returns to Dispatching, or is
\* Aborted when the ceiling is exceeded.
C4_TimeoutIsCrash ==
    [][(state = "WorkerExited" /\ result.kind = "timeout")
          => (retries' = retries + 1 /\ state' \in {"Dispatching", "Aborted"})]_vars

\* C5: for a worker that exits with status zero, any output that is neither
\* the success object nor the error object moves the orchestrator to Aborted
\* immediately.
C5_ViolationAborts ==
    [][(/\ state = "WorkerExited"
        /\ result.kind = "exit"
        /\ result.returncode = 0
        /\ ~IsSuccessObj(result.stdout)
        /\ ~IsErrorObj(result.stdout))
          => state' = "Aborted"]_vars

\* C6: once no unembedded chunk remains, or every remaining one is permanently
\* unembeddable, the orchestrator eventually reaches Stopped (unless a worker
\* fails on the way).
C6_UnembeddableCompletes ==
    AllRemainingUnembeddable ~> (state = "Stopped" \/ ~clean)

\* C10: every run that has ended has printed the final summary.
C10_SummaryAlways == state \in Terminal => summary

-----------------------------------------------------------------------------
(* Claims about the importer *)

IsPrefix(s, t) == Len(s) <= Len(t) /\ SubSeq(t, 1, Len(s)) = s

ChunksOf(d, id) == SelectSeq(d.chunks, LAMBDA c : c.document_id = id)

\* every Document of d has exactly the Chunks derived from it, in chunking
\* order, and every Chunk of d has its Document
Atomic(d) ==
    /\ \A doc \in Range(d.documents) :
          LET cs == ChunksOf(d, doc.id) IN
          /\ cs # <<>>
          /\ [i \in 1..Len(cs) |-> cs[i].text] = derived[doc.id]
    /\ \A c \in Range(d.chunks) : \E doc \in Range(d.documents) : doc.id = c.document_id
    /\ \A i, j \in DOMAIN d.documents : d.documents[i].id = d.documents[j].id => i = j

\* the sources of the current run that fail no check of the importer
ValidPaths == {p \in Range(run.sources) : SkipReason(p) = ""}
ValidConvs == {i \in DOMAIN run.sources : Eligible(run.sources[i]) /\ ~TextMissing(run.sources[i])}

\* C7: after any sequence of import runs the store holds at most one Document
\* for each non-null source_path.
C7_OneDocumentPerPath ==
    \A i, j \in DOMAIN db.documents :
        (db.documents[i].source_path # NULL
         /\ db.documents[i].source_path = db.documents[j].source_path) => i = j

\* C8: in every committed state of the store, whatever imports ran and wherever
\* a crash hit them, each Document is there with all the Chunks derived from it
\* and each Chunk with its Document; and no step, a crash included, changes or
\* removes a Document or Chunk that was committed.
C8_AtomicInsertion ==
    /\ [] Atomic(db)
    /\ [][IsPrefix(db.documents, db'.documents) /\ IsPrefix(db.chunks, db'.chunks)]_vars

C8_Witness ==
    /\ ipc = "crashed"
    /\ run.kind = "dir"
    /\ run.crashedAt = "insert_chunks"
    /\ Len(db.documents) >= 1
    /\ cur.id \notin {doc.id : doc \in Range(db.documents)}

\* C9: when an import run over several sources has ended, every valid source
\* of the run is committed, whatever happened to the sources before or after.
C9_ValidSourcesCommitted ==
    ipc \in {"finished", "raised"} =>
        /\ run.kind = "dir" => ValidPaths \subseteq existing_source_paths(db)
        /\ run.kind = "ai" =>
              Len(db.documents) - run.docsBefore = Cardinality(ValidConvs)

-----------------------------------------------------------------------------
(* The store under all its clients: import runs, backfill runs, and        *)
(* deletes of documents by a client of the store                           *)

\* DELETE FROM documents WHERE id = ? under the schema of init_db: the
\* chunks go with the document (ON DELETE CASCADE, line 44) when the
\* connection has PRAGMA foreign_keys = ON, and trigger chunks_ad (lines
\* 55-57) takes the index entry of every chunk that goes
delete_document(conn, doc_id, foreign_keys) ==
    LET gone == IF foreign_keys
                THEN {c.id : c \in {r \in Range(conn.chunks) : r.document_id = doc_id}}
                ELSE {}
    IN [documents |-> SelectSeq(conn.documents, LAMBDA doc : doc.id # doc_id),
        chunks |-> SelectSeq(conn.chunks, LAMBDA c : c.id \notin gone),
        fts |-> {e \in conn.fts : e[1] \notin gone}]

\* a client deletes one document while no import and no backfill runs; the
\* identifiers in use are kept below a bound
DeleteDocument ==
    /\ ipc = "idle"
    /\ state = "Idle"
    /\ NewDocId(db) <= MaxDocs + 1
    /\ \E i \in DOMAIN db.documents, foreign_keys \in BOOLEAN :
          db' = delete_document(db, db.documents[i].id, foreign_keys)
    /\ tx' = db'
    /\ UNCHANGED <<importCtl, embedVars, chunkVars>>

\* main() of embed-knowledge.py has returned or raised: the process is gone
OrchestratorExit ==
    /\ state \in Terminal
    /\ state' = "Idle"
    /\ total' = 0
    /\ done' = 0
    /\ retries' = 0
    /\ result' = NoResult
    /\ summary' = FALSE
    /\ dispatched' = 0
    /\ onlyCrashes' = TRUE
    /\ clean' = TRUE
    /\ streak' = 0
    /\ crashes' = 0
    /\ UNCHANGED <<db, importVars, chunkVars, bad, workers>>

\* one writer at a time: an import runs while no backfill does, and a
\* backfill, on a store of at most MaxChunks chunks, while no import does
ImportStep == state = "Idle" /\ NextImport
EmbedStep == ipc = "idle" /\ Len(db.chunks) <= MaxChunks /\ NextEmbed

NextStore ==
    \/ ImportStep
    \/ EmbedStep
    \/ OrchestratorExit

\* import runs and backfill runs, one after the other, from the empty store
\* on
SpecStore == InitImport /\ [][NextStore]_vars

\* import_file: the run that inserts one document
FileRun ==
    \/ StartFile
    \/ InsertDocument
    \/ InsertChunks
    \/ Commit
    \/ Crash
    \/ Exit

NextDelete ==
    \/ state = "Idle" /\ FileRun
    \/ EmbedStep
    \/ OrchestratorExit
    \/ DeleteDocument

\* documents inserted, vectors written and documents deleted, from the
\* empty store on
SpecDelete == InitImport /\ [][NextDelete]_vars

-----------------------------------------------------------------------------
(* chunk_text applied to bounded texts *)

\* sentence units: lengths on both sides of the three thresholds, and one
\* white-space character
UnitLens == {-1, 40, 59, 60, 300, 301, 800, 801}

\* the least element of a non-empty set of numbers
SetMin(S) == CHOOSE m \in S : \A x \in S : m <= x

\* the text whose units are cut into paragraphs after the positions in breaks
TextOf(units, breaks) ==
    LET k == Len(units)
        starts == {1} \cup {b + 1 : b \in breaks}
        nth(j) == CHOOSE st \in starts : Cardinality({t \in starts : t <= st}) = j
        last(st) == SetMin({t - 1 : t \in {q \in starts : q > st}} \cup {k})
    IN IF k = 0 THEN <<>>
       ELSE [j \in 1..Cardinality(starts) |-> SubSeq(units, nth(j), last(nth(j)))]

\* chunk_text is handed a text of at most MaxUnits sentence units
InitChunk ==
    /\ db = EmptyDb
    /\ tx = db
    /\ derived = <<>>
    /\ ImporterIdle
    /\ OrchestratorIdle
    /\ \E k \in 0..MaxUnits :
          \E units \in [1..k -> UnitLens], breaks \in SUBSET (1..(k - 1)) :
              input = TextOf(units, breaks)
    /\ fragments = <<>>
    /\ chunked = FALSE

\* fragments = chunk_text(text)
ChunkText ==
    /\ ~chunked
    /\ fragments' = chunk_text(input)
    /\ chunked' = TRUE
    /\ UNCHANGED <<db, importVars, embedVars, input>>

NextChunk == ChunkText

SpecChunk == InitChunk /\ [][NextChunk]_vars

-----------------------------------------------------------------------------
(* Claims about chunk_text *)

Paras == Paragraphs(input)

\* the length of the paragraph or sentence unit a part stands for
PartLen(part) ==
    IF part[2] = 0 THEN ParaLen(Paras[part[1]])
    ELSE UnitLen(Paras[part[1]][part[2]])

\* the length of the first n parts joined by separators of sep characters
Joined(parts, n, sep) == SumSeq([j \in 1..n |-> PartLen(parts[j])]) + sep * (n - 1)

WholeFragment(f) == \A j \in DOMAIN f.parts : f.parts[j][2] = 0
UnitFragment(f) == \A j \in DOMAIN f.parts : f.parts[j][2] > 0

FragmentsWith(part) ==
    {i \in DOMAIN fragments : \E j \in DOMAIN fragments[i].parts :
                                  fragments[i].parts[j] = part}

\* C12: every fragment chunk_text returns has at most SENT_CEILING (600)
\* characters, unless it is one single paragraph or one single sentence unit
\* that is by itself longer than 600 characters.
C12_ChunkBound ==
    chunked =>
        \A i \in DOMAIN fragments :
            \/ fragments[i].len <= SENT_CEILING
            \/ /\ Len(fragments[i].parts) = 1
               /\ PartLen(fragments[i].parts[1]) > SENT_CEILING

\* C19: a paragraph of at most 800 characters joins the buffer, after a blank
\* line when the buffer is not empty, exactly when buffer length plus
\* paragraph length is below 100; otherwise the buffer is emitted and the
\* paragraph starts a new one.  Two paragraphs whose lengths sum to less than
\* 100 give exactly one fragment holding both.
C19_SmallParagraphMerging ==
    chunked =>
        /\ \A p \in DOMAIN Paras :
              ParaLen(Paras[p]) <= LONG_PARA => Cardinality(FragmentsWith(<<p, 0>>)) = 1
        /\ \A i \in DOMAIN fragments :
              LET f == fragments[i]
                  n == Len(f.parts)
                  nxt == f.parts[n][1] + 1
              IN WholeFragment(f) =>
                   /\ \A j \in 1..(n - 1) :
                         /\ f.parts[j + 1][1] = f.parts[j][1] + 1
                         /\ Joined(f.parts, j, 2) + PartLen(f.parts[j + 1]) < SMALL_PARA
                   /\ f.len = Joined(f.parts, n, 2)
                   /\ (nxt \in DOMAIN Paras /\ ParaLen(Paras[nxt]) <= LONG_PARA)
                         => Joined(f.parts, n, 2) + ParaLen(Paras[nxt]) >= SMALL_PARA
        /\ (Len(Paras) = 2 /\ ParaLen(Paras[1]) + ParaLen(Paras[2]) < SMALL_PARA)
              => fragments = <<[len |-> ParaLen(Paras[1]) + 2 + ParaLen(Paras[2]),
                                parts |-> <<<<1, 0>>, <<2, 0>>>>]>>

\* two paragraphs of 99 characters together have been merged into one
\* fragment, and a buffer has been emitted in front of a paragraph that
\* would have brought it to 100
C19_Witness ==
    /\ chunked
    /\ Len(Paras) = 3
    /\ ParaLen(Paras[1]) + ParaLen(Paras[2]) = SMALL_PARA - 1
    /\ ParaLen(Paras[2]) + ParaLen(Paras[3]) = SMALL_PARA
    /\ Len(fragments) = 2
    /\ Len(fragments[1].parts) = 2

\* C20: the threshold tests are strict: a paragraph of exactly 800
\* characters is not sentence-split, one of 801 or more is; in sentence
\* packing a unit joins the sub-fragment when sub-fragment length plus unit
\* length is exactly 600, and the sub-fragment is emitted only when that sum
\* exceeds 600.
C20_StrictThresholds ==
    chunked =>
        /\ \A p \in DOMAIN Paras :
              /\ ParaLen(Paras[p]) <= LONG_PARA =>
                    /\ FragmentsWith(<<p, 0>>) # {}
                    /\ \A u \in DOMAIN Paras[p] : FragmentsWith(<<p, u>>) = {}
              /\ ParaLen(Paras[p]) >= LONG_PARA + 1 =>
                    /\ FragmentsWith(<<p, 0>>) = {}
                    /\ \A u \in DOMAIN Paras[p] : Cardinality(FragmentsWith(<<p, u>>)) = 1
        /\ \A i \in DOMAIN fragments :
              LET f == fragments[i]
                  n == Len(f.parts)
                  p == f.parts[n][1]
                  nxt == f.parts[n][2] + 1
              IN /\ WholeFragment(f) \/ UnitFragment(f)
                 /\ UnitFragment(f) =>
                      /\ \A j \in 1..(n - 1) :
                            /\ f.parts[j + 1] = <<p, f.parts[j][2] + 1>>
                            /\ Joined(f.parts, j, 1) + PartLen(f.parts[j + 1]) <= SENT_CEILING
                      /\ f.len = Joined(f.parts, n, 1)
                      /\ nxt \in DOMAIN Paras[p]
                            => Joined(f.parts, n, 1) + UnitLen(Paras[p][nxt]) > SENT_CEILING

\* a paragraph of exactly 800 characters has been kept whole, and a unit has
\* been added to a sub-fragment at a sum of exactly 600
C20_Witness ==
    /\ chunked
    /\ \E p \in DOMAIN Paras :
          ParaLen(Paras[p]) = LONG_PARA /\ FragmentsWith(<<p, 0>>) # {}
    /\ \E i \in DOMAIN fragments :
          /\ UnitFragment(fragments[i])
          /\ Len(fragments[i].parts) = 2
          /\ Joined(fragments[i].parts, 1, 1) + PartLen(fragments[i].parts[2]) = SENT_CEILING

\* a fragment in which no character is visible: it is made of white-space
\* units only (a stripped paragraph always has visible text)
BlankFragment(f) ==
    \A j \in DOMAIN f.parts :
        /\ f.parts[j][2] > 0
        /\ IsBlank(Paras[f.parts[j][1]][f.parts[j][2]])

\* C21: chunk_text never returns an empty or white-space-only fragment, and
\* for a text that is empty or has blank paragraphs only it returns the
\* empty sequence (so that no import path stores a Document or a Chunk for
\* such a text).
C21_NoEmptyFragments ==
    chunked =>
        /\ \A i \in DOMAIN fragments :
              fragments[i].len > 0 /\ ~BlankFragment(fragments[i])
        /\ Paras = <<>> => fragments = <<>>

\* the parts of a sequence of fragments, in the order of the fragments
RECURSIVE PartsOf(_)
PartsOf(fs) == IF fs = <<>> THEN <<>> ELSE Head(fs).parts \o PartsOf(Tail(fs))

\* what the paragraphs from the i-th on are made of, in input order: a
\* paragraph of at most 800 characters as a whole, a longer one unit by unit
RECURSIVE PiecesFrom(_)
PiecesFrom(i) ==
    IF i > Len(Paras) THEN <<>>
    ELSE (IF ParaLen(Paras[i]) > LONG_PARA
          THEN [u \in DOMAIN Paras[i] |-> <<i, u>>]
          ELSE <<<<i, 0>>>>) \o PiecesFrom(i + 1)

\* C22: chunk_text loses and reorders nothing: every non-blank paragraph,
\* and every sentence unit of a paragraph longer than 800 characters, is in
\* exactly one fragment, the fragments follow the order of the input, and a
\* fragment made from a long paragraph holds text of that paragraph only.
C22_NothingLostOrReordered ==
    chunked =>
        /\ PartsOf(fragments) = PiecesFrom(1)
        /\ \A i \in DOMAIN fragments :
              LET f == fragments[i] IN
                \A j, k \in DOMAIN f.parts :
                    f.parts[j][2] > 0 => f.parts[k][1] = f.parts[j][1]

\* a long paragraph of several units between two short ones has been
\* chunked: the short ones are in fragments of their own
C22_Witness ==
    /\ chunked
    /\ \E p \in DOMAIN Paras :
          /\ p - 1 \in DOMAIN Paras /\ p + 1 \in DOMAIN Paras
          /\ ParaLen(Paras[p]) > LONG_PARA /\ Len(Paras[p]) >= 2
          /\ ParaLen(Paras[p - 1]) < SMALL_PARA
          /\ ParaLen(Paras[p + 1]) < SMALL_PARA
          /\ FragmentsWith(<<p - 1, 0>>) # FragmentsWith(<<p + 1, 0>>)
    /\ Len(fragments) >= 4

-----------------------------------------------------------------------------
(* Claims about the vectors in the store *)

\* the number of floats of a stored vector
Dimension(vector) == vector[1]

Embedded(d) == {c \in Range(d.chunks) : c.vector # NO_VECTOR}

\* C13: all vectors present in the store have the same length: a vector
\* whose length differs from the dimensionality of the vectors written
\* before is refused and the chunk's vector stays absent.
C13_OneDimension ==
    \A c1, c2 \in Embedded(db) : Dimension(c1.vector) = Dimension(c2.vector)

-----------------------------------------------------------------------------
(* Claims about the worker processes of a run *)

\* C17: at every moment of an orchestrator run at most one worker process
\* exists: a worker is dispatched only after the one before it has exited
\* or has been given up on timeout.
C17_SingleWorker ==
    /\ workers <= 1
    /\ state # "AwaitingWorker" => workers = 0

\* a second worker is in flight, the first one gone
C17_Witness ==
    /\ state = "AwaitingWorker"
    /\ dispatched >= 2
    /\ workers = 1

\* C18: the retry counter counts crashes in a row: a worker that exits with
\* status zero resets it, and the retry ceiling moves a run to Aborted only
\* after more than RETRY_CEILING non-zero exits in a row, however many there
\* are in the whole run.
C18_ConsecutiveOnly ==
    /\ state # "WorkerExited" => retries = streak
    /\ (state = "Aborted" /\ result.kind = "exit" /\ result.returncode # 0)
          => streak > RETRY_CEILING

\* a run has ended with every chunk embedded after more crashes than the
\* ceiling, never more than the ceiling in a row
C18_Witness ==
    /\ state = "Stopped"
    /\ done = total
    /\ crashes > RETRY_CEILING
    /\ countUnembedded(db) = 0

-----------------------------------------------------------------------------
(* Claims about what a bulk import takes in *)

HumanSenders(conv) ==
    Cardinality({i \in DOMAIN conv.chat_messages : conv.chat_messages[i].sender = "human"})

Stored(d) == Range(d.documents)

\* a transcript file that nothing but the signal filter could stop
Importable(path) ==
    /\ File(path).stat_ok
    /\ File(path).size <= MAX_FILE_SIZE
    /\ File(path).parse_ok
    /\ chunk_text(Transcript(File(path).messages)) # <<>>

\* C14: a transcript, of either transcript format, with fewer than
\* MIN_HUMAN_MESSAGES (5) human messages never gives a Document or a Chunk;
\* one with exactly 5 human messages passes the filter.
C14_MinimumSignal ==
    /\ \A d \in Stored(tx) \cup Stored(db) :
          /\ d.source_type = "claude_code"
                => human_count(File(d.source_path).messages) >= MIN_HUMAN_MESSAGES
          /\ d.source_type = "claude_ai"
                => \A conv \in Conversations :
                      conv.name = d.filename => HumanSenders(conv) >= MIN_HUMAN_MESSAGES
    /\ \A c \in Range(tx.chunks) : \E d \in Stored(tx) : d.id = c.document_id
    /\ (ipc = "finished" /\ run.kind = "dir")
          => \A path \in Range(run.sources) :
                (Importable(path) /\ human_count(File(path).messages) = MIN_HUMAN_MESSAGES)
                   => path \in existing_source_paths(db)
    /\ (ipc = "finished" /\ run.kind = "ai")
          => \A i \in DOMAIN run.sources :
                HumanSenders(run.sources[i]) = MIN_HUMAN_MESSAGES
                   => \E d \in Stored(db) : d.source_type = "claude_ai"
                                             /\ d.filename = run.sources[i].name

\* a directory run has ended: it imported the transcript with exactly 5
\* human messages and skipped the one with 4
C14_Witness ==
    /\ ipc = "finished"
    /\ run.kind = "dir"
    /\ run.docsBefore = 0
    /\ {"a.jsonl", "e.jsonl"} \subseteq Range(run.sources)
    /\ imported >= 1
    /\ skipped >= 1
    /\ "a.jsonl" \in existing_source_paths(db)
    /\ "e.jsonl" \notin existing_source_paths(db)

\* C16: in a bulk import run every source found is counted once, as imported
\* or as skipped, the sources whose dedup key is already recorded among the
\* skipped: imported + skipped is the number of sources of the run, and
\* imported is the number of Documents the run committed.
C16_EverySourceCounted ==
    (ipc = "finished" /\ run.kind = "dir")
        => /\ imported + skipped = Len(run.sources)
           /\ imported = Len(db.documents) - run.docsBefore

-----------------------------------------------------------------------------
(* Claims about the store under import runs, backfill runs and deletes *)

ChunkIds(d) == {c.id : c \in Range(d.chunks)}

ChunkById(d, id) == CHOOSE c \in Range(d.chunks) : c.id = id

\* from store d to store e no chunk changes its text or loses or changes a
\* vector it has, and every chunk that is new in e has no vector
WriteOnce(d, e) ==
    /\ \A id \in ChunkIds(d) \cap ChunkIds(e) :
          /\ ChunkById(e, id).text = ChunkById(d, id).text
          /\ ChunkById(d, id).vector # NO_VECTOR
                => ChunkById(e, id).vector = ChunkById(d, id).vector
    /\ \A id \in ChunkIds(e) \ ChunkIds(d) : ChunkById(e, id).vector = NO_VECTOR

Backfilling == state \in {"Dispatching", "AwaitingWorker", "WorkerExited"}

\* C11: over import runs and backfill batches, crashed and retried ones
\* included, every Chunk is created without a vector, its text never
\* changes, and a vector once present is never overwritten or cleared; the
\* number of unembedded chunks never grows during a backfill, and the rows a
\* batch works on are unembedded ones.
C11_VectorWriteOnce ==
    [][/\ WriteOnce(db, db')
       /\ WriteOnce(tx, tx')
       /\ Backfilling => /\ countUnembedded(db') <= countUnembedded(db)
                          /\ \A r \in Range(BatchRows(db)) : r.vector = NO_VECTOR]_vars

\* a backfill on a store that an earlier backfill and a later import run
\* have filled: a worker has crashed, a later one has exited with status
\* zero, and no chunk is left without a vector
C11_Witness ==
    /\ state = "WorkerExited"
    /\ result.returncode = 0
    /\ crashes >= 1
    /\ dispatched >= 2
    /\ Len(db.documents) >= 2
    /\ total < Len(db.chunks)
    /\ countUnembedded(db) = 0

\* C15: after any sequence of document inserts, vector writes and document
\* deletes the full-text index entries are those of the existing Chunks and
\* every Chunk refers to an existing Document: a delete of a Document takes
\* its Chunks and their index entries with it, whichever connection deletes.
C15_CascadeIntegrity ==
    /\ db.fts = {<<c.id, c.text>> : c \in Range(db.chunks)}
    /\ \A c \in Range(db.chunks) : \E doc \in Stored(db) : doc.id = c.document_id

-----------------------------------------------------------------------------
(* Claims about the orchestrator's progress accounting *)

\* the chunks whose vector went from absent to present since the count of
\* line 47 was taken (only workers write, and no vector is ever removed)
WrittenInRun == total - countUnembedded(db)

\* C23: in a run in which only the workers write to the store, done never
\* exceeds total, and when the run has ended done equals the number of
\* chunks whose vector went from absent to present during the run, also
\* when workers crashed: what a crashed worker committed is counted, once.
C23_ProgressAccounting ==
    /\ done <= total
    /\ state \in Terminal => done = WrittenInRun

=============================================================================
